---------------------------- MODULE Spec2Model ----------------------------
(***************************************************************************)
(* Wave Function Collapse map generator: the useWaveFunctionCollapse hook  *)
(* (setup / draw) and the CanvasComponent driver that calls it.            *)
(*                                                                         *)
(* Conventions.  JavaScript arrays are 0-indexed; TLA+ sequences are       *)
(* 1-indexed, so an array read a[k] is written a[k + 1].  Pattern ids and  *)
(* cell indices keep the source's 0-based numbering: patterns,             *)
(* frequencies, adjacencies, wave and entropy are functions over 0-based   *)
(* index sets.  Entropy values are real numbers in the source; they are    *)
(* kept here in hundredths (EntropyScale), so that the jitter              *)
(* Math.random() * 0.1, a real in [0, 0.1), is an integer in [0, 10).      *)
(***************************************************************************)
EXTENDS Integers, Sequences, FiniteSets, TLC

\* ------------------------------------------------------------------ bounds
\* largest output grid (outputDimWidth x outputDimHeight) explored
MaxW == 2
MaxH == 2
\* largest sample image (imageWidth x imageHeight) explored
MaxImgW == 2
MaxImgH == 2
\* largest pattern dimension N (patternDim) explored
MaxN == 2
\* largest value of the step counter at which Generate Step is still clicked
MaxSteps == 2
\* largest sample height explored together with the component's handlers
MaxImgHUI == 1
\* width of the one-row output grid explored by SpecWide: an odd ring of more
\* than 3 cells
WideW == 5

\* the colours a sample pixel may take, as the 4 bytes (r, g, b, a) of ImageData
Palette == { <<0, 0, 0, 255>>, <<255, 255, 255, 255>> }

\* hundredths: the unit in which entropy values are kept
EntropyScale == 100
\* the values of Math.random() * 0.1 explored for the jitter, in hundredths
JitterVals == {0, 9}

VARIABLES
    \* the sample image and the component's props / inputs
    imageData, imageWidth, imageHeight, patternDim, outputDimWidth, outputDimHeight,
    \* the hook's state
    wave, entropy, adjacencies, patterns, frequencies,
    \* the component's state
    isSetupComplete, isGenerating, isScanning, stepCount,
    \* position of the asynchronous handlers, drawLoop's local `result`, and
    \* what the running generation's closures captured (genEnv)
    scanPc, genPc, loopResult, genEnv,
    \* observation of the last engine call: what draw returned, which path it
    \* took, which cell and pattern it handled, the cells collapsed since setup
    \* and whether a draw has hit a contradiction since setup
    drawResult, lastOutcome, lastCell, lastPattern, collapsed, contradicted,
    \* the domain the selected cell had when the last draw began, the
    \* neighbour updates (stack pushes) of the last draw in order, and whether
    \* the last call was a setup that replaced a state with collapsed cells
    lastDomain, lastLog, discarded,
    \* where the last draw met an empty intersection, if it did
    lastHalt

config == <<imageData, imageWidth, imageHeight, patternDim, outputDimWidth, outputDimHeight>>
engine == <<wave, entropy, adjacencies, patterns, frequencies>>
ui     == <<isSetupComplete, isGenerating, isScanning, stepCount, scanPc, genPc, loopResult, genEnv>>
obs    == <<drawResult, lastOutcome, lastCell, lastPattern, collapsed, contradicted,
             lastDomain, lastLog, discarded, lastHalt>>
vars   == <<config, engine, ui, obs>>

\* ------------------------------------------------------- generic helpers
\* A sequence given as a function over 1..n, as the value itself: the same
\* sequence, computed once instead of at every later read.
Arr(f) == f \o <<>>

Reverse(s) == Arr([k \in 1..Len(s) |-> s[Len(s) + 1 - k]])

RECURSIVE Concat(_)
\* Array.prototype.flat(): one level of flattening
Concat(ss) == IF ss = <<>> THEN <<>> ELSE Head(ss) \o Concat(Tail(ss))

\* the elements of 0-indexed array s whose 0-based index satisfies Keep
FilterIdx(s, Keep(_)) ==
    LET F[k \in 0..Len(s)] ==
            IF k = 0 THEN <<>>
            ELSE IF Keep(k - 1) THEN Append(F[k - 1], s[k]) ELSE F[k - 1]
    IN F[Len(s)]

\* ---------------------------------------------------------- JSON.stringify
\* The text is kept as a sequence of tokens: a number stands for itself and
\* the punctuation is "[" = -1, "]" = -2, "," = -3.
LBr == -1
RBr == -2
Comma == -3

RECURSIVE JoinComma(_)
JoinComma(parts) ==
    IF parts = <<>> THEN <<>>
    ELSE IF Len(parts) = 1 THEN parts[1]
    ELSE parts[1] \o <<Comma>> \o JoinComma(Tail(parts))

\* JSON.stringify of an array of numbers (a pixel)
StringifyPixel(px) == <<LBr>> \o JoinComma(Arr([k \in 1..Len(px) |-> <<px[k]>>])) \o <<RBr>>
\* JSON.stringify of an array of pixels (a row, or a flattened pattern)
StringifyRow(row) ==
    <<LBr>> \o JoinComma(Arr([k \in 1..Len(row) |-> StringifyPixel(row[k])])) \o <<RBr>>
\* JSON.stringify of a pattern (array of rows)
StringifyPattern(p) ==
    <<LBr>> \o JoinComma(Arr([k \in 1..Len(p) |-> StringifyRow(p[k])])) \o <<RBr>>

\* JSON.parse of the text of a pattern: the numbers of the text, in order,
\* regrouped by the bracket structure (4 numbers per pixel, then rows closed
\* by "]" "]").
ParsePattern(text) ==
    LET Step[k \in 0..Len(text)] ==
            \* <<rows done, current row, current pixel, depth>>
            IF k = 0 THEN [rows |-> <<>>, row |-> <<>>, px |-> <<>>, depth |-> 0]
            ELSE LET s == Step[k - 1]
                     t == text[k]
                 IN  IF t = LBr THEN [s EXCEPT !.depth = @ + 1]
                     ELSE IF t = RBr THEN
                          IF s.depth = 3
                          THEN [s EXCEPT !.row = Append(@, s.px), !.px = <<>>, !.depth = 2]
                          ELSE IF s.depth = 2
                          THEN [s EXCEPT !.rows = Append(@, s.row), !.row = <<>>, !.depth = 1]
                          ELSE [s EXCEPT !.depth = 0]
                     ELSE IF t = Comma THEN s
                     ELSE [s EXCEPT !.px = Append(@, t)]
    IN Step[Len(text)].rows

\* ------------------------------------------------ Pattern Library Builder
\* kernel[n][i] = i + n * imageWidth, 0 <= n, i < patternDim
kernel(N, imgW) == Arr([n \in 1..N |-> Arr([i \in 1..N |-> (i - 1) + (n - 1) * imgW])])

\* the row computed from the running pixel index x + offset + imageWidth * y:
\* a window that passes the right edge goes on at the start of the next row
cmat_rowCarry(data, imgW, imgH, N, x, y) ==
    LET k == kernel(N, imgW)
    IN Arr([n \in 1..N |-> Arr([i \in 1..N |->
           LET offset == k[n][i]
               pixelX == (x + offset) % imgW
               pixelY == ((x + offset + imgW * y) \div imgW) % imgH
               pixelIndex == (pixelY * imgW + pixelX) * 4
           IN << data[pixelIndex + 1], data[pixelIndex + 2],
                 data[pixelIndex + 3], data[pixelIndex + 4] >> ])])

\* the N x N window of the sample at position (x, y)
cmat(data, imgW, imgH, N, x, y) ==
    LET k == kernel(N, imgW)
    IN Arr([n \in 1..N |-> Arr([i \in 1..N |->
           LET offset == k[n][i]
               pixelX == (x + offset) % imgW
               pixelY == ((offset + imgW * y) \div imgW) % imgH
               pixelIndex == (pixelY * imgW + pixelX) * 4
           IN << data[pixelIndex + 1], data[pixelIndex + 2],
                 data[pixelIndex + 3], data[pixelIndex + 4] >> ])])

\* the rows taken last to first without the transposition
rotate90_upsideDown(matrix) == Reverse(matrix)

rotate90(matrix) ==
    Arr([x \in 1..Len(matrix[1]) |->
        Arr([k \in 1..Len(matrix) |-> matrix[Len(matrix) + 1 - k][x]])])

\* vertical flip: currentPattern.slice().reverse()
FlipRows(p) == Reverse(p)
\* horizontal flip: currentPattern.map(row => row.slice().reverse())
FlipCols(p) == Arr([k \in 1..Len(p) |-> Reverse(p[k])])

\* the rotations alone, without the two flips of each
Variants_rotationsOnly(c) ==
    LET r0 == c
        r1 == rotate90(r0)
        r2 == rotate90(r1)
        r3 == rotate90(r2)
    IN << r0, r1, r2, r3 >>

\* the rotation never taken up (`currentPattern` left as the window): the
\* window, its vertical flip and its horizontal flip, pushed 4 times
Variants_unrotated(c) ==
    LET Three(p) == << p, FlipRows(p), FlipCols(p) >>
    IN Three(c) \o Three(c) \o Three(c) \o Three(c)

\* the 12 patterns pushed for one window: for each of 4 rotations the
\* pattern, its vertical flip and its horizontal flip
Variants(c) ==
    LET r0 == c
        r1 == rotate90(r0)
        r2 == rotate90(r1)
        r3 == rotate90(r2)
        Three(p) == << p, FlipRows(p), FlipCols(p) >>
    IN Three(r0) \o Three(r1) \o Three(r2) \o Three(r3)

\* allPatterns: windows taken for y = 0..imageHeight-1 (outer) and
\* x = 0..imageWidth-1 (inner), each contributing its variants in order
allPatterns(data, imgW, imgH, N) ==
    LET A[k \in 0..(imgW * imgH)] ==
            IF k = 0 THEN <<>>
            ELSE LET y == (k - 1) \div imgW
                     x == (k - 1) % imgW
                 IN A[k - 1] \o Variants(cmat(data, imgW, imgH, N, x, y))
    IN A[imgW * imgH]

\* no deduplication: every entry of allPatterns gets an id of its own, count 1
Dedup_keepAll(all) ==
    [unique |-> all, counts |-> Arr([r \in 1..Len(all) |-> 1])]

\* Deduplication by JSON text (patternCounts / patternIndexMap /
\* uniquePatterns): a pattern whose text was not seen before gets the next id
\* and count 1, a pattern whose text was seen increments that text's count.
\* So the unique patterns are the first occurrences, in order of occurrence,
\* and the count of each is the number of entries of allPatterns with its text.
Dedup(all) ==
    LET keys == Arr([k \in 1..Len(all) |-> StringifyPattern(all[k])])
        first == {k \in 1..Len(all) : \A m \in 1..(k - 1) : keys[m] # keys[k]}
        \* the k-th first occurrence, by position
        nth(r) == CHOOSE k \in first : Cardinality({m \in first : m <= k}) = r
    IN [unique |-> Arr([r \in 1..Cardinality(first) |-> all[nth(r)]]),
        counts |-> Arr([r \in 1..Cardinality(first) |->
                       Cardinality({m \in 1..Len(all) : keys[m] = keys[nth(r)]})])]

isHorizontallyAdjacent(pattern1, pattern2, N) ==
    LET flat1 == Concat(pattern1)
        flat2 == Concat(pattern2)
        pattern1LeftEdge  == FilterIdx(flat1, LAMBDA i : i % N # N - 1)
        pattern2RightEdge == FilterIdx(flat2, LAMBDA i : i % N # 0)
    IN StringifyRow(pattern1LeftEdge) = StringifyRow(pattern2RightEdge)

\* Array.prototype.slice(from, to) with 0 <= from, to clipped to the length
Slice(s, from, to) ==
    LET hi == IF to > Len(s) THEN Len(s) ELSE to
    IN IF from >= hi THEN <<>> ELSE SubSeq(s, from + 1, hi)

\* the two slices exchanged: pattern1 without its top row against pattern2
\* without its bottom row
isVerticallyAdjacent_swapped(pattern1, pattern2, N) ==
    LET flat1 == Concat(pattern1)
        flat2 == Concat(pattern2)
    IN StringifyRow(Slice(flat1, N, Len(flat1))) = StringifyRow(Slice(flat2, 0, N * N - N))

isVerticallyAdjacent(pattern1, pattern2, N) ==
    LET flat1 == Concat(pattern1)
        flat2 == Concat(pattern2)
        pattern1Top    == Slice(flat1, 0, N * N - N)
        pattern2Bottom == Slice(flat2, N, Len(flat2))
    IN StringifyRow(pattern1Top) = StringifyRow(pattern2Bottom)

\* directions: 0 = Left (-1,0), 1 = Right (1,0), 2 = Up (0,-1), 3 = Down (0,1)
Left  == 0
Right == 1
Up    == 2
Down  == 3
Dirs  == {Left, Right, Up, Down}
directions == << <<-1, 0>>, <<1, 0>>, <<0, -1>>, <<0, 1>> >>

\* a slip in the second .add of each pair: i is added to [i][Right] and
\* [i][Down] with j, instead of i to [j][Right] and [j][Down]
addAdjacencies_sameSide(ids, HzPairs, VtPairs) ==
    [i \in ids |->
       [d \in Dirs |->
          IF d = Left \/ d = Right THEN {j \in ids : <<i, j>> \in HzPairs}
          ELSE {j \in ids : <<i, j>> \in VtPairs}]]

\* the table after the .add calls of the double loop: a horizontal hit (i, j)
\* adds j to [i][Left] and i to [j][Right]; a vertical hit (i, j) adds j to
\* [i][Up] and i to [j][Down]
addAdjacencies(ids, HzPairs, VtPairs) ==
    [i \in ids |->
       [d \in Dirs |->
          IF d = Left  THEN {j \in ids : <<i, j>> \in HzPairs}
          ELSE IF d = Right THEN {j \in ids : <<j, i>> \in HzPairs}
          ELSE IF d = Up    THEN {j \in ids : <<i, j>> \in VtPairs}
          ELSE                   {j \in ids : <<j, i>> \in VtPairs}]]

\* the adjacency table: the double loop over (i, j) with its two tests
initAdjacencies(initPatterns, N) ==
    LET P == Len(initPatterns)
        Hz(i, j) == isHorizontallyAdjacent(initPatterns[i + 1], initPatterns[j + 1], N)
        Vt(i, j) == isVerticallyAdjacent(initPatterns[i + 1], initPatterns[j + 1], N)
        ids == 0..(P - 1)
        HzPairs == {pr \in ids \X ids : Hz(pr[1], pr[2])}
        VtPairs == {pr \in ids \X ids : Vt(pr[1], pr[2])}
    IN addAdjacencies(ids, HzPairs, VtPairs)

\* the library setup builds: unique patterns, frequencies, adjacency table
Library(data, imgW, imgH, N) ==
    LET d == Dedup(allPatterns(data, imgW, imgH, N))
        P == Len(d.unique)
        initPatterns == Arr([k \in 1..P |-> ParsePattern(StringifyPattern(d.unique[k]))])
    IN [patterns    |-> [i \in 0..(P - 1) |-> d.unique[i + 1]],
        frequencies |-> [i \in 0..(P - 1) |-> d.counts[i + 1]],
        adjacencies |-> initAdjacencies(initPatterns, N)]


\* ------------------------------------------------------------------ setup
\* no cell given a lower entropy: numberOfUniquePatterns everywhere
setup_noSeed(lib, W, H, randomPatternIndex) ==
    LET numberOfUniquePatterns == Cardinality(DOMAIN lib.patterns)
        Cells == 0..(W * H - 1)
    IN [patterns    |-> lib.patterns,
        frequencies |-> lib.frequencies,
        adjacencies |-> lib.adjacencies,
        wave        |-> [i \in Cells |-> 0..(numberOfUniquePatterns - 1)],
        entropy     |-> [i \in Cells |-> numberOfUniquePatterns * EntropyScale]]

\* the ids handed out from a random starting point: the frequency of id i is
\* that of the pattern first seen in position i + randomPatternIndex
setup_randomIds(lib, W, H, randomPatternIndex) ==
    LET numberOfUniquePatterns == Cardinality(DOMAIN lib.patterns)
        Cells == 0..(W * H - 1)
        shifted(i) == (i + randomPatternIndex) % numberOfUniquePatterns
    IN [patterns    |-> [i \in DOMAIN lib.patterns |-> lib.patterns[shifted(i)]],
        frequencies |-> [i \in DOMAIN lib.frequencies |-> lib.frequencies[shifted(i)]],
        adjacencies |-> lib.adjacencies,
        wave        |-> [i \in Cells |-> 0..(numberOfUniquePatterns - 1)],
        entropy     |-> [i \in Cells \cup {randomPatternIndex} |->
                            IF i = randomPatternIndex
                            THEN (numberOfUniquePatterns - 1) * EntropyScale
                            ELSE numberOfUniquePatterns * EntropyScale]]

\* The state setup installs: the library built from the sample (lib), full
\* superposition in every cell,
\* entropy numberOfUniquePatterns everywhere except numberOfUniquePatterns - 1
\* at randomPatternIndex = Math.floor(Math.random() * (W * H)).
setup(lib, W, H, randomPatternIndex) ==
    LET numberOfUniquePatterns == Cardinality(DOMAIN lib.patterns)
        Cells == 0..(W * H - 1)
    IN [patterns    |-> lib.patterns,
        frequencies |-> lib.frequencies,
        adjacencies |-> lib.adjacencies,
        wave        |-> [i \in Cells |-> 0..(numberOfUniquePatterns - 1)],
        entropy     |-> [i \in Cells \cup {randomPatternIndex} |->
                            IF i = randomPatternIndex
                            THEN (numberOfUniquePatterns - 1) * EntropyScale
                            ELSE numberOfUniquePatterns * EntropyScale]]

\* the values Math.floor(Math.random() * n) can take
RandomIndex(n) == IF n <= 0 THEN {0} ELSE 0..(n - 1)

\* ------------------------------------------------------------------- draw
\* null and undefined, where the source has them in place of a cell index or
\* of a pattern id
Null == -1
Undefined == -2

\* the comparison reversed (`value > maxValue`): the first cell of largest
\* entropy
findMinEntropyKey_max(entropyMap) ==
    IF DOMAIN entropyMap = {} THEN Null
    ELSE LET maxValue == CHOOSE v \in {entropyMap[k] : k \in DOMAIN entropyMap} :
                            \A k \in DOMAIN entropyMap : v >= entropyMap[k]
         IN CHOOSE k \in DOMAIN entropyMap :
                /\ entropyMap[k] = maxValue
                /\ \A k2 \in DOMAIN entropyMap : entropyMap[k2] = maxValue => k <= k2

\* A Map iterates in insertion order.  setup inserts the entropy keys in
\* ascending order, and draw only deletes keys or overwrites existing ones
\* (the write at the entropy update is guarded by drawEntropy.has), so the
\* iteration order is always ascending cell index: the first strict minimum
\* met is the smallest index among the cells of minimum value.
findMinEntropyKey(entropyMap) ==
    IF DOMAIN entropyMap = {} THEN Null
    ELSE LET minValue == CHOOSE v \in {entropyMap[k] : k \in DOMAIN entropyMap} :
                            \A k \in DOMAIN entropyMap : v <= entropyMap[k]
         IN CHOOSE k \in DOMAIN entropyMap :
                /\ entropyMap[k] = minValue
                /\ \A k2 \in DOMAIN entropyMap : entropyMap[k2] = minValue => k <= k2

\* every id of the cell's domain pushed once, whatever its frequency
weightedPatterns_unweighted(possiblePatterns, freqs) ==
    LET ids == possiblePatterns \cap DOMAIN freqs
        nth[k \in 1..Cardinality(ids)] ==
            CHOOSE a \in ids : Cardinality({b \in ids : b < a}) = k - 1
    IN [k \in 1..Cardinality(ids) |-> nth[k]]

\* weightedPatterns: each id of the cell's domain repeated frequency[id]
\* times (ids taken in ascending order; the order inside the pool does not
\* change which ids a uniform index can yield, nor how many positions each
\* has).  An id without an entry in frequencies has frequency undefined and
\* the loop `i < freq` does not run for it.
RECURSIVE weightedPatterns(_, _)
weightedPatterns(possiblePatterns, freqs) ==
    IF possiblePatterns = {} THEN <<>>
    ELSE LET idP == CHOOSE a \in possiblePatterns : \A b \in possiblePatterns : a <= b
             freq == IF idP \in DOMAIN freqs THEN freqs[idP] ELSE 0
         IN [k \in 1..freq |-> idP] \o weightedPatterns(possiblePatterns \ {idP}, freqs)

\* `if (entropyMin)`: a number is truthy unless it is 0; null is falsy
Truthy(entropyMin) == entropyMin # Null /\ entropyMin # 0

\* the pool built from every pattern of the library, not from the patterns
\* the selected cell still holds
selectRandomPattern_anyPattern(w, entropyMin, freqs) ==
    IF Truthy(entropyMin)
    THEN IF entropyMin \notin DOMAIN w \/ w[entropyMin] = {}
         THEN {Null}
         ELSE LET pool == weightedPatterns(DOMAIN freqs, freqs)
              IN IF pool = <<>> THEN {Undefined}
                 ELSE { pool[randomIndex + 1] : randomIndex \in RandomIndex(Len(pool)) }
    ELSE {Null}

\* selectRandomPattern: the set of values it can return over the values of
\* Math.random().  Reading an empty pool at index 0 yields undefined.
selectRandomPattern(w, entropyMin, freqs) ==
    IF Truthy(entropyMin)
    THEN IF entropyMin \notin DOMAIN w \/ w[entropyMin] = {}
         THEN {Null}
         ELSE LET pool == weightedPatterns(w[entropyMin], freqs)
              IN IF pool = <<>> THEN {Undefined}
                 ELSE { pool[randomIndex + 1] : randomIndex \in RandomIndex(Len(pool)) }
    ELSE {Null}

\* the domain of the selected cell left as it was
collapseCell_keep(w, entropyMin, selectedPatternId) == w

\* drawWave.set(entropyMin, new Set([selectedPatternId]))
collapseCell(w, entropyMin, selectedPatternId) ==
    [k \in DOMAIN w \cup {entropyMin} |-> IF k = entropyMin THEN {selectedPatternId} ELSE w[k]]

\* the key of the selected cell left in the entropy index
deleteEntropy_keep(e, entropyMin) == e

\* drawEntropy.clear() in place of the delete: every key leaves the index
deleteEntropy_clear(e, entropyMin) == [k \in {} |-> 0]

\* the entropy of the selected cell set to 0, its key left in the index
deleteEntropy_zero(e, entropyMin) == [k \in DOMAIN e |-> IF k = entropyMin THEN 0 ELSE e[k]]

\* drawEntropy.delete(entropyMin)
deleteEntropy(e, entropyMin) == [k \in DOMAIN e \ {entropyMin} |-> e[k]]

\* drawEntropy.has(neighborElementIndex): the neighbour is not collapsed yet
isUncollapsed(e, neighborElementIndex) == neighborElementIndex \in DOMAIN e

\* the patterns of the current cell themselves taken out of the candidates
possiblePatternsOf_excludingSelf(adj, currentCellPatterns, dir) ==
    UNION {adj[idP][dir] : idP \in currentCellPatterns \cap DOMAIN adj} \ currentCellPatterns

\* the table read on the opposite side: adjacencyMaps[opposite of dir]
possiblePatternsOf_opposite(adj, currentCellPatterns, dir) ==
    LET opposite == IF dir = Left THEN Right ELSE IF dir = Right THEN Left
                    ELSE IF dir = Up THEN Down ELSE Up
    IN UNION {adj[idP][opposite] : idP \in currentCellPatterns \cap DOMAIN adj}

\* possiblePatterns: every pattern that can sit in direction dir of some
\* pattern of the current cell (ids without an adjacency entry add nothing)
possiblePatternsOf(adj, currentCellPatterns, dir) ==
    UNION {adj[idP][dir] : idP \in currentCellPatterns \cap DOMAIN adj}

\* a jitter twenty times as large: Math.random() * 2
updatedEntropyValue_wide(size, jitterValue) == size * EntropyScale - 20 * jitterValue

\* the entropy computed from one pattern more than the cell holds
updatedEntropyValue_offByOne(size, jitterValue) == (size + 1) * EntropyScale - jitterValue

\* currentPatterns.size - Math.random() * 0.1, in hundredths
updatedEntropyValue(size, jitterValue) == size * EntropyScale - jitterValue

isSubSetOf(subset, superset) == \A elem \in subset : elem \in superset

intersectSets(setA, setB) == {elem \in setA : elem \in setB}

\* y wrapping modulo H as x does modulo W: every cell has 4 neighbours
neighbor_wrapBoth(c, d, W, H) ==
    LET dx == directions[d][1]
        dy == directions[d][2]
        x == ((c % W) + dx + W) % W
        y == ((c \div W) + dy + H) % H
    IN x + y * W

\* an empty intersection let through: it is written to the wave like any other
isContradiction_never(intersectedPatterns) == FALSE

\* `if (intersectedPatterns.size === 0)`
isContradiction(intersectedPatterns) == intersectedPatterns = {}

\* the neighbour of cell c in direction index d (1..4), or Null when y is out of
\* [0, H): x wraps modulo W, y does not
neighbor(c, d, W, H) ==
    LET dx == directions[d][1]
        dy == directions[d][2]
        x == ((c % W) + dx + W) % W
        y == (c \div W) + dy
    IN IF y >= 0 /\ y < H THEN x + y * W ELSE Null

\* no empty intersection met
NoHalt == [from |-> Null, dir |-> Null, cell |-> Null, at |-> Null]

\* the empty intersection written to the wave before the step is given up
haltAt_written(st, cur, dir, n) ==
    [st EXCEPT !.contradiction = TRUE,
               !.wave = [k \in DOMAIN st.wave \cup {n} |-> IF k = n THEN {} ELSE st.wave[k]],
               !.halt = [from |-> cur, dir |-> dir, cell |-> n, at |-> Len(st.log)]]

\* `console.error(...); return;` on an empty intersection: the step is given
\* up before anything is written for neighbour n (halt records where: the
\* cell being processed, the direction, the neighbour, and how many updates
\* were made before)
haltAt(st, cur, dir, n) ==
    [st EXCEPT !.contradiction = TRUE,
               !.halt = [from |-> cur, dir |-> dir, cell |-> n, at |-> Len(st.log)]]

\* One pass of the `for (const [dx, dy] of directions)` loop for the popped
\* cell, from direction index d on.
\* st = [wave, entropy, stack, contradiction, log, halt].
RECURSIVE forDirections(_, _, _, _, _, _, _)
forDirections(st, cur, d, adj, W, H, jitter) ==
    IF d > 4 THEN st
    ELSE LET n == neighbor(cur, d, W, H)
         IN IF n = Null \/ ~isUncollapsed(st.entropy, n)
            THEN forDirections(st, cur, d + 1, adj, W, H, jitter)
            ELSE LET dir == d - 1
                     currentCellPatterns == IF cur \in DOMAIN st.wave THEN st.wave[cur] ELSE {}
                     possiblePatterns == possiblePatternsOf(adj, currentCellPatterns, dir)
                     availablePatterns == IF n \in DOMAIN st.wave THEN st.wave[n] ELSE {}
                 IN IF isSubSetOf(availablePatterns, possiblePatterns)
                    THEN forDirections(st, cur, d + 1, adj, W, H, jitter)
                    ELSE LET intersectedPatterns == intersectSets(possiblePatterns, availablePatterns)
                         IN IF isContradiction(intersectedPatterns)
                            THEN haltAt(st, cur, dir, n)
                            ELSE forDirections(
                                   [wave    |-> [k \in DOMAIN st.wave \cup {n} |->
                                                   IF k = n THEN intersectedPatterns ELSE st.wave[k]],
                                    entropy |-> [st.entropy EXCEPT ![n] =
                                                   updatedEntropyValue(Cardinality(intersectedPatterns), jitter[n])],
                                    stack   |-> Append(st.stack, n),
                                    contradiction |-> FALSE,
                                    log     |-> Append(st.log,
                                                  [from |-> cur, dir |-> dir, cell |-> n,
                                                   before |-> availablePatterns,
                                                   after |-> intersectedPatterns]),
                                    halt    |-> st.halt],
                                   cur, d + 1, adj, W, H, jitter)

\* the step given up right after the collapse, the collapsed cell still on
\* the stack: what a suspension before the loop would let the others see
propagate_suspended(st, adj, W, H, jitter) == st

\* the `while (stack.length > 0)` loop
RECURSIVE propagate(_, _, _, _, _)
propagate(st, adj, W, H, jitter) ==
    IF st.contradiction \/ st.stack = <<>> THEN st
    ELSE LET currentElementIndex == st.stack[Len(st.stack)]
             popped == [st EXCEPT !.stack = SubSeq(st.stack, 1, Len(st.stack) - 1)]
         IN propagate(forDirections(popped, currentElementIndex, 1, adj, W, H, jitter),
                      adj, W, H, jitter)

NullResult      == [kind |-> "null"]
UndefinedResult == [kind |-> "undefined"]
ObjectResult(selectedPattern, entropyMin) ==
    [kind |-> "object", selectedPattern |-> selectedPattern, entropyMin |-> entropyMin]
\* `return null;` at the contradiction, as at the other early returns
ContradictionReturn_null == NullResult

\* `return;` at the contradiction
ContradictionReturn == UndefinedResult

\* a bare `return;` when the entropy index is empty
DoneReturn_undefined == UndefinedResult

\* `return null;` when the entropy index is empty
DoneReturn == NullResult

\* draw working on copies of the Maps, committed by setWave / setEntropy at
\* the end only: a step that returns early leaves the state as it was
drawMaps_workingCopy(w, e, st) ==
    IF st.contradiction THEN [wave |-> w, entropy |-> e]
    ELSE [wave |-> st.wave, entropy |-> st.entropy]

\* `let drawWave = wave; let drawEntropy = entropy;`: the Maps draw writes to
\* are the hook's state itself, so the state after a step is what the step
\* has written, however it ends
drawMaps(w, e, st) == [wave |-> st.wave, entropy |-> st.entropy]

\* draw, as a function of the state it reads and of the random values it
\* draws: selectedPatternId (one of selectRandomPattern's possible values) and
\* jitter[n], the last Math.random() * 0.1 drawn for cell n in this call
\* (earlier values written for n in the same call are overwritten before
\* anything reads them).  The Maps are mutated in place, so the wave and
\* entropy of the result are the hook's state whatever draw returns.
draw(w, e, adj, pats, freqs, W, H, selectedPatternId, jitter) ==
    LET same(outcome, cell, result) ==
            [wave |-> w, entropy |-> e, result |-> result, outcome |-> outcome,
             cell |-> cell, pattern |-> Null, log |-> <<>>, halt |-> NoHalt,
             domain |-> IF cell \in DOMAIN w THEN w[cell] ELSE {}]
        entropyMin == findMinEntropyKey(e)
    IN IF DOMAIN e = {} THEN same("done", Null, DoneReturn)
       ELSE IF entropyMin = Null THEN same("nokey", Null, NullResult)
       ELSE IF selectedPatternId = Null THEN same("nopattern", entropyMin, NullResult)
       ELSE LET st0 == [wave    |-> collapseCell(w, entropyMin, selectedPatternId),
                        entropy |-> deleteEntropy(e, entropyMin),
                        stack   |-> <<entropyMin>>,
                        contradiction |-> FALSE,
                        log     |-> <<>>,
                        halt    |-> NoHalt]
                st == propagate(st0, adj, W, H, jitter)
                live == drawMaps(w, e, st)
            IN [wave    |-> live.wave,
                entropy |-> live.entropy,
                result  |-> IF st.contradiction THEN ContradictionReturn
                            ELSE IF selectedPatternId \notin DOMAIN pats THEN NullResult
                            ELSE ObjectResult(pats[selectedPatternId], entropyMin),
                outcome |-> IF st.contradiction THEN "contradiction"
                            ELSE IF selectedPatternId \notin DOMAIN pats THEN "nopixels"
                            ELSE "collapsed",
                cell    |-> entropyMin,
                pattern |-> selectedPatternId,
                log     |-> st.log,
                halt    |-> st.halt,
                domain  |-> IF entropyMin \in DOMAIN w THEN w[entropyMin] ELSE {}]


\* ------------------------------------------------------ initial state
\* ImageData.data of a w x h image whose pixels are taken from the palette
Samples(w, h) == { Concat(px) : px \in [1..(w * h) -> Palette] }

NoResult == [kind |-> "none"]

\* no generation is running: nothing is captured
NoEnv == [aliased |-> TRUE, wave |-> <<>>, entropy |-> <<>>,
          adjacencies |-> <<>>, patterns |-> <<>>, frequencies |-> <<>>]

Init ==
    /\ imageWidth \in 1..MaxImgW
    /\ imageHeight \in 1..MaxImgH
    /\ imageData \in Samples(imageWidth, imageHeight)
    /\ patternDim \in 1..MaxN
    /\ outputDimWidth \in 1..MaxW
    /\ outputDimHeight \in 1..MaxH
    \* useState(new Map()) / useState([])
    /\ wave = <<>>
    /\ entropy = <<>>
    /\ adjacencies = <<>>
    /\ patterns = <<>>
    /\ frequencies = <<>>
    /\ isSetupComplete = FALSE
    /\ isGenerating = FALSE
    /\ isScanning = FALSE
    /\ stepCount = 0
    /\ scanPc = "idle"
    /\ genPc = "idle"
    /\ loopResult = "none"
    /\ genEnv = NoEnv
    /\ drawResult = NoResult
    /\ lastOutcome = "none"
    /\ lastCell = -1
    /\ lastPattern = -1
    /\ collapsed = {}
    /\ contradicted = FALSE
    /\ lastDomain = {}
    /\ lastLog = <<>>
    /\ lastHalt = NoHalt
    /\ discarded = FALSE

\* ------------------------------------------------- the hook's two calls
\* the effect of setup(...) on the hook's state
DoSetup ==
    \E lib \in {Library(imageData, imageWidth, imageHeight, patternDim)} :
    \E randomPatternIndex \in RandomIndex(outputDimWidth * outputDimHeight) :
    \E s \in {setup(lib, outputDimWidth, outputDimHeight, randomPatternIndex)} :
           /\ wave' = s.wave
           /\ entropy' = s.entropy
           /\ adjacencies' = s.adjacencies
           /\ patterns' = s.patterns
           /\ frequencies' = s.frequencies
           /\ drawResult' = NoResult
           /\ lastOutcome' = "setup"
           /\ lastCell' = randomPatternIndex
           /\ lastPattern' = -1
           /\ collapsed' = {}
           /\ contradicted' = FALSE
           /\ lastDomain' = {}
           /\ lastLog' = <<>>
           /\ lastHalt' = NoHalt
           /\ discarded' = (collapsed # {})

\* every result draw() can have on the given maps and library, over the
\* values of Math.random() (a jitter is only ever drawn for a cell of the
\* entropy index other than the one being collapsed)
DrawResults(w, e, adj, pats, freqs) ==
    { draw(w, e, adj, pats, freqs, outputDimWidth, outputDimHeight, selectedPatternId, jitter) :
        selectedPatternId \in selectRandomPattern(w, findMinEntropyKey(e), freqs),
        jitter \in [DOMAIN e \ {findMinEntropyKey(e)} -> JitterVals] }

\* what the last draw call did
Observe(r) ==
    /\ drawResult' = r.result
    /\ lastOutcome' = r.outcome
    /\ lastCell' = r.cell
    /\ lastPattern' = r.pattern
    /\ collapsed' = IF r.pattern # Null THEN collapsed \cup {r.cell} ELSE collapsed
    /\ contradicted' = (contradicted \/ r.outcome = "contradiction")
    /\ lastDomain' = r.domain
    /\ lastLog' = r.log
    /\ lastHalt' = r.halt
    /\ discarded' = FALSE

\* the effect of one draw() of the current render on the hook's state: the
\* Maps held by the state are mutated in place
DoDraw ==
    \E r \in DrawResults(wave, entropy, adjacencies, patterns, frequencies) :
        /\ wave' = r.wave
        /\ entropy' = r.entropy
        /\ UNCHANGED <<adjacencies, patterns, frequencies>>
        /\ Observe(r)

\* setup called directly on the hook
SetupCall == DoSetup /\ UNCHANGED <<config, ui>>
\* draw called directly on the hook
DrawCall == DoDraw /\ UNCHANGED <<config, ui>>

Next == SetupCall \/ DrawCall

Spec == Init /\ [][Next]_vars

\* the hook on a one-row grid of WideW cells, where the Left and the Right
\* neighbour of a cell are two different cells
InitWide ==
    /\ imageWidth \in 1..MaxImgW
    /\ imageHeight \in 1..MaxImgH
    /\ imageData \in Samples(imageWidth, imageHeight)
    /\ patternDim \in 1..MaxN
    /\ outputDimWidth = WideW
    /\ outputDimHeight = 1
    /\ wave = <<>>
    /\ entropy = <<>>
    /\ adjacencies = <<>>
    /\ patterns = <<>>
    /\ frequencies = <<>>
    /\ isSetupComplete = FALSE
    /\ isGenerating = FALSE
    /\ isScanning = FALSE
    /\ stepCount = 0
    /\ scanPc = "idle"
    /\ genPc = "idle"
    /\ loopResult = "none"
    /\ genEnv = NoEnv
    /\ drawResult = NoResult
    /\ lastOutcome = "none"
    /\ lastCell = -1
    /\ lastPattern = -1
    /\ collapsed = {}
    /\ contradicted = FALSE
    /\ lastDomain = {}
    /\ lastLog = <<>>
    /\ lastHalt = NoHalt
    /\ discarded = FALSE

SpecWide == InitWide /\ [][Next]_vars

\* ------------------------------------------------------ CanvasComponent
\* The handlers are asynchronous: each action below is one stretch of a
\* handler between two timer waits (an `await draw()` resumes in a microtask,
\* before any timer or click).  A handler keeps the closures of the render in
\* which it was clicked: its draw reads the Maps, the library and the flags
\* of that render.  The Maps are shared with the hook's state until a setup
\* replaces the state's Maps (genEnv.aliased = FALSE from then on), and a
\* draw that reaches setWave(drawWave) puts the Maps it worked on back into
\* the state.

\* Scan Patterns: disabled = !imageData || isScanning || isGenerating
handleScanClick ==
    /\ ~isScanning /\ ~isGenerating
    /\ scanPc = "idle"
    /\ isScanning' = TRUE
    /\ scanPc' = "wait"
    /\ UNCHANGED <<config, engine, obs, isSetupComplete, isGenerating, stepCount,
                   genPc, loopResult, genEnv>>

\* handleScan after its 10 ms wait: setup, then the flags
handleScanRun ==
    /\ scanPc = "wait"
    /\ DoSetup
    /\ isSetupComplete' = TRUE
    /\ isScanning' = FALSE
    /\ scanPc' = "idle"
    /\ genEnv' = IF genPc # "idle" /\ genEnv.aliased
                 THEN [genEnv EXCEPT !.aliased = FALSE, !.wave = wave, !.entropy = entropy]
                 ELSE genEnv
    /\ UNCHANGED <<config, isGenerating, stepCount, genPc, loopResult>>

\* the closures of the current render
Capture == [aliased |-> TRUE, wave |-> <<>>, entropy |-> <<>>,
            adjacencies |-> adjacencies, patterns |-> patterns, frequencies |-> frequencies]

\* what drawOnCanvas returns for a result of draw
drawOnCanvasResult(result) ==
    IF result.kind = "object"
    THEN IF result.entropyMin = 0 THEN "false" ELSE "true"
    ELSE "undefined"

\* the increment made before the `if (drawResult)` test: every draw counts
stepCountAfter_always(count, result) == count + 1

\* `if (drawResult) { stepCountRef.current += 1; setStepCount(...) }`: null
\* and undefined are falsy, the object of a collapse is truthy
stepCountAfter(count, result) == IF result.kind = "object" THEN count + 1 ELSE count

\* drawOnCanvas: one draw() of the captured render and the step counter.
\* inLoop: the caller is drawLoop, which keeps the value returned (in
\* loopResult') and its closures for the next iteration; handleStepGeneration
\* ends after the call.
drawOnCanvas(inLoop) ==
    \E r \in IF genEnv.aliased
             THEN DrawResults(wave, entropy, genEnv.adjacencies, genEnv.patterns, genEnv.frequencies)
             ELSE DrawResults(genEnv.wave, genEnv.entropy, genEnv.adjacencies,
                              genEnv.patterns, genEnv.frequencies) :
        LET \* setWave / setAdjacencies / setEntropy are reached
            committed == r.outcome = "collapsed"
            nextEnv == IF genEnv.aliased THEN genEnv
                       ELSE IF committed
                       THEN [genEnv EXCEPT !.aliased = TRUE, !.wave = <<>>, !.entropy = <<>>]
                       ELSE [genEnv EXCEPT !.wave = r.wave, !.entropy = r.entropy]
        IN /\ IF genEnv.aliased \/ committed
              THEN /\ wave' = r.wave
                   /\ entropy' = r.entropy
                   /\ adjacencies' = IF committed THEN genEnv.adjacencies ELSE adjacencies
              ELSE UNCHANGED <<wave, entropy, adjacencies>>
           /\ genEnv' = IF inLoop THEN nextEnv ELSE NoEnv
           /\ UNCHANGED <<patterns, frequencies>>
           /\ Observe(r)
           /\ stepCount' = stepCountAfter(stepCount, r.result)
           /\ loopResult' = IF inLoop THEN drawOnCanvasResult(r.result) ELSE "none"

\* Generate Full Map: disabled = isGenerating || !isSetupComplete
drawLoopClick ==
    /\ ~isGenerating /\ isSetupComplete
    /\ genPc = "idle"
    /\ stepCount' = 0
    /\ isGenerating' = TRUE
    /\ genPc' = "loopStart"
    /\ genEnv' = Capture
    /\ loopResult' = "none"
    /\ UNCHANGED <<config, engine, obs, isSetupComplete, isScanning, scanPc>>

\* one iteration of `while (loop)`, up to its 5 ms wait.  The first one runs
\* when drawLoop's 10 ms timer fires, after the timer of a scan clicked earlier.
drawLoopIterate ==
    /\ \/ genPc = "loopStart" /\ scanPc = "idle"
       \/ genPc = "loopWait" /\ loopResult = "true"
    /\ drawOnCanvas(TRUE)
    /\ genPc' = "loopWait"
    /\ UNCHANGED <<config, isSetupComplete, isGenerating, isScanning, scanPc>>

\* `if (!result) loop = false`, then the end of drawLoop
drawLoopExit ==
    /\ genPc = "loopWait" /\ loopResult # "true"
    /\ isGenerating' = FALSE
    /\ genPc' = "idle"
    /\ genEnv' = NoEnv
    /\ loopResult' = "none"
    /\ UNCHANGED <<config, engine, obs, isSetupComplete, isScanning, stepCount, scanPc>>

\* Generate Step: disabled = isGenerating || !isSetupComplete
handleStepGenerationClick ==
    /\ ~isGenerating /\ isSetupComplete
    /\ genPc = "idle"
    /\ stepCount < MaxSteps
    /\ isGenerating' = TRUE
    /\ genPc' = "stepStart"
    /\ genEnv' = Capture
    /\ UNCHANGED <<config, engine, obs, isSetupComplete, isScanning, stepCount, scanPc, loopResult>>

\* handleStepGeneration after its 10 ms wait
handleStepGenerationRun ==
    /\ genPc = "stepStart" /\ scanPc = "idle"
    /\ drawOnCanvas(FALSE)
    /\ isGenerating' = FALSE
    /\ genPc' = "idle"
    /\ UNCHANGED <<config, isSetupComplete, isScanning, scanPc>>

\* a reset that also starts the wave afresh: every cell back in the entropy
\* index with every pattern
handleReset_fresh ==
    /\ ~isGenerating
    /\ stepCount' = 0
    /\ wave' = [c \in DOMAIN wave |-> DOMAIN patterns]
    /\ entropy' = [c \in DOMAIN wave |-> Cardinality(DOMAIN patterns) * EntropyScale]
    /\ UNCHANGED <<config, adjacencies, patterns, frequencies, obs, isSetupComplete,
                   isGenerating, isScanning, scanPc, genPc, loopResult, genEnv>>

\* Reset Canvas: disabled = isGenerating
handleReset ==
    /\ ~isGenerating
    /\ stepCount' = 0
    /\ UNCHANGED <<config, engine, obs, isSetupComplete, isGenerating, isScanning,
                   scanPc, genPc, loopResult, genEnv>>

NextUI ==
    \/ handleScanClick
    \/ handleScanRun
    \/ drawLoopClick
    \/ drawLoopIterate
    \/ drawLoopExit
    \/ handleStepGenerationClick
    \/ handleStepGenerationRun
    \/ handleReset

\* the component is explored on the samples of height at most MaxImgHUI
InitUI == Init /\ imageHeight <= MaxImgHUI

SpecUI == InitUI /\ [][NextUI]_vars


\* ------------------------------------------------------------ properties
Cells == 0..(outputDimWidth * outputDimHeight - 1)
Ids == DOMAIN patterns
\* setup has run: the wave has its W * H cells (it is the empty Map before)
SetupDone == DOMAIN wave # {}
\* the cells a step has collapsed, as the entropy index tells it
CollapsedCells == DOMAIN wave \ DOMAIN entropy
\* the sample is of a single colour
UniformSample ==
    \E c \in Palette : imageData = Concat([k \in 1..(imageWidth * imageHeight) |-> c])
\* every pattern is compatible with every pattern in all 4 directions
AllCompatible == \A i \in Ids : \A d \in Dirs : adjacencies[i][d] = Ids
\* cell n is the neighbour of c in some direction whose index is d
ConsistentPair(c, d, n) ==
    \A p \in wave[c] : \A q \in wave[n] :
        p \in DOMAIN adjacencies /\ q \in adjacencies[p][d - 1]

\* C1: after setup and any number of draw steps none of which hit a
\* contradiction, every collapsed cell and every collapsed neighbour of it
\* (x wrapping modulo W, y inside [0, H)) hold patterns that the adjacency
\* table allows in that direction.
C1_LocalConsistency ==
    (SetupDone /\ ~contradicted) =>
        \A c \in CollapsedCells : \A d \in 1..4 :
            LET n == neighbor(c, d, outputDimWidth, outputDimHeight)
            IN (n # Null /\ n \in CollapsedCells) => ConsistentPair(c, d, n)

\* The same between two different cells (for W = 1 the Left and Right
\* neighbour of a cell is the cell itself): this is what propagation ensures.
C1_DistinctNeighbours ==
    (SetupDone /\ ~contradicted) =>
        \A c \in CollapsedCells : \A d \in 1..4 :
            LET n == neighbor(c, d, outputDimWidth, outputDimHeight)
            IN (n # Null /\ n # c /\ n \in CollapsedCells) => ConsistentPair(c, d, n)

\* two neighbouring collapsed cells, of a library in which not all pairs are compatible
C1_DistinctWitness ==
    /\ SetupDone /\ ~contradicted /\ ~AllCompatible
    /\ \E c \in CollapsedCells : \E d \in 1..4 :
          LET n == neighbor(c, d, outputDimWidth, outputDimHeight)
          IN n # Null /\ n # c /\ n \in CollapsedCells

\* C2: in the adjacency table built by setup, j is in adjacency[i][Left] iff
\* i is in adjacency[j][Right], and j is in adjacency[i][Up] iff i is in
\* adjacency[j][Down], for all pattern ids i and j.
C2_AdjacencySymmetry ==
    SetupDone =>
        \A i \in Ids : \A j \in Ids :
            /\ (j \in adjacencies[i][Left] <=> i \in adjacencies[j][Right])
            /\ (j \in adjacencies[i][Up] <=> i \in adjacencies[j][Down])

\* a table in which compatibility is not a symmetric relation: j may sit
\* Left of i but i may not sit Left of j, and the same for Up
C2_Witness ==
    /\ SetupDone
    /\ \E i \in Ids : \E j \in Ids :
          j \in adjacencies[i][Left] /\ i \notin adjacencies[j][Left]
    /\ \E i \in Ids : \E j \in Ids :
          j \in adjacencies[i][Up] /\ i \notin adjacencies[j][Up]

\* C3: after setup and after every draw call, every cell has a domain of size
\* at least 1 unless the last draw call ended in a contradiction, and every
\* cell absent from the entropy index has a domain of size exactly 1.
C3_DomainInvariant ==
    SetupDone =>
        /\ DOMAIN wave = Cells
        /\ lastOutcome # "contradiction" => \A c \in Cells : Cardinality(wave[c]) >= 1
        /\ \A c \in Cells \ DOMAIN entropy : Cardinality(wave[c]) = 1

\* a collapsed cell next to cells that propagation has narrowed, in a library
\* of several patterns
C3_Witness ==
    /\ lastOutcome = "collapsed"
    /\ Cardinality(Ids) >= 2
    /\ CollapsedCells # {}
    /\ \E c \in DOMAIN entropy : Cardinality(wave[c]) < Cardinality(Ids)

\* C4: after setup and after every draw call, whatever its outcome, the
\* number of cells in the entropy index plus the number of cells that a step
\* has collapsed is W * H.
C4_EntropyCollapseConsistency ==
    SetupDone =>
        Cardinality(DOMAIN entropy) + Cardinality(collapsed)
            = outputDimWidth * outputDimHeight

\* a cell collapsed by a step that ended in a contradiction, others left
C4_Witness ==
    /\ lastOutcome = "contradiction"
    /\ collapsed # {}
    /\ DOMAIN entropy # {}

\* C5: the result of a draw step tells Done, Collapsed(cell, pattern) and
\* Contradiction apart: a step that hit a contradiction returns neither the
\* value returned when nothing is left to collapse nor a Collapsed result.
C5_DistinctOutcomes ==
    /\ lastOutcome = "contradiction" =>
          drawResult # NullResult /\ drawResult.kind # "object"
    /\ lastOutcome = "done" => drawResult = NullResult
    /\ lastOutcome = "collapsed" =>
          /\ drawResult.kind = "object"
          /\ drawResult.entropyMin = lastCell
          /\ drawResult.selectedPattern = patterns[lastPattern]

\* a step has just ended in a contradiction
C5_Witness == lastOutcome = "contradiction" /\ DOMAIN entropy # {}

\* C6: a draw step returns the null result only when the entropy index is
\* empty; a remaining uncollapsed cell, index 0 included, is collapsed instead.
C6_DoneOnlyWhenEmpty ==
    (SetupDone /\ drawResult = NullResult) => DOMAIN entropy = {}

\* C7 as stated: for a uniform sample and N = 1 the library has one pattern,
\* of frequency w * h, compatible with itself in the 4 directions.
C7_FrequencyIsPixelCount ==
    (SetupDone /\ UniformSample /\ patternDim = 1) =>
        /\ Ids = {0}
        /\ frequencies[0] = imageWidth * imageHeight
        /\ \A d \in Dirs : 0 \in adjacencies[0][d]

\* C7, amended: for a uniform sample and N = 1 the library has one pattern,
\* of frequency 12 * w * h (each of the w * h windows is pushed 12 times),
\* compatible with itself in the 4 directions.
C7_FrequencyIsVariantCount ==
    (SetupDone /\ UniformSample /\ patternDim = 1) =>
        /\ Ids = {0}
        /\ DOMAIN frequencies = {0}
        /\ frequencies[0] = 12 * imageWidth * imageHeight
        /\ \A d \in Dirs : 0 \in adjacencies[0][d]

\* the library of a uniform sample of several pixels
C7_Witness ==
    /\ SetupDone /\ UniformSample /\ patternDim = 1
    /\ imageWidth * imageHeight >= 2

\* C8: with the single-pattern library of a uniform sample and N = 1, when
\* drawLoop stops every cell has been collapsed (the entropy index is empty,
\* every domain is that one pattern) and no step has hit a contradiction.
C8_SinglePatternCompletes ==
    [][ (genPc = "loopWait" /\ genPc' = "idle" /\ UniformSample /\ patternDim = 1) =>
            /\ DOMAIN entropy = {}
            /\ \A c \in Cells : wave[c] = {0}
            /\ ~contradicted ]_vars

\* C9: when every pattern is compatible with every pattern in all 4
\* directions, no draw step ends in a contradiction and propagation changes
\* no domain: every cell still in the entropy index keeps the full set of ids.
\* Every library built with N = 1 is such a library.
C9_NoContradictionNoNarrowing ==
    /\ (SetupDone /\ patternDim = 1) => AllCompatible
    /\ (SetupDone /\ AllCompatible) =>
          /\ ~contradicted
          /\ lastOutcome # "contradiction"
          /\ \A c \in DOMAIN entropy : wave[c] = Ids

\* a cell collapsed in a library of two mutually compatible patterns, with
\* uncollapsed neighbours left
C9_Witness ==
    /\ AllCompatible
    /\ Cardinality(Ids) >= 2
    /\ lastOutcome = "collapsed"
    /\ DOMAIN entropy # {}

\* C10: whenever drawLoop stops, every cell of the grid is collapsed or the
\* last draw step hit a contradiction.
C10_LoopStopsOnlyWhenFinished ==
    [][ (genPc = "loopWait" /\ genPc' = "idle") =>
            (DOMAIN entropy = {} \/ lastOutcome = "contradiction") ]_vars

\* C11: right after every setup call, the first or one made after draw
\* steps, every cell of the grid has all the pattern ids 0..P-1 as its domain
\* and is in the entropy index, one cell has entropy P - 1 and every other
\* cell has entropy P: nothing of the previous run's collapses is left.
C11_SetupIsFresh ==
    lastOutcome = "setup" =>
        LET P == Cardinality(Ids)
        IN /\ Ids = 0..(P - 1)
           /\ DOMAIN wave = Cells
           /\ \A c \in Cells : wave[c] = Ids
           /\ DOMAIN entropy = Cells
           /\ \E s \in Cells :
                 /\ entropy[s] = (P - 1) * EntropyScale
                 /\ \A c \in Cells \ {s} : entropy[c] = P * EntropyScale

\* a setup that has just replaced a state in which cells were collapsed, for
\* a library of several patterns and a grid of several cells
C11_Witness ==
    /\ lastOutcome = "setup"
    /\ discarded
    /\ Cardinality(Ids) >= 2
    /\ Cardinality(Cells) >= 2

\* C12: the cell a draw step selects is in the entropy index with the
\* minimum entropy value of the index, and it has the minimum domain size of
\* all the uncollapsed cells: the jitter, below 0.1, only decides between
\* cells of equal domain size.
C12_SelectsMinimum ==
    [][ lastOutcome' \in {"nopattern", "contradiction", "nopixels", "collapsed"} =>
            /\ lastCell' \in DOMAIN entropy
            /\ \A k \in DOMAIN entropy :
                  /\ entropy[lastCell'] <= entropy[k]
                  /\ Cardinality(wave[lastCell']) <= Cardinality(wave[k]) ]_vars

\* a step has collapsed a cell that propagation had narrowed before, while a
\* cell with a larger domain was left uncollapsed
C12_Witness ==
    /\ lastOutcome = "collapsed"
    /\ Cardinality(lastDomain) < Cardinality(Ids)
    /\ \E k \in DOMAIN entropy : Cardinality(wave[k]) > Cardinality(lastDomain)

\* the number of positions of the pool that hold id
Occurrences(pool, id) == Cardinality({k \in 1..Len(pool) : pool[k] = id})

\* C13: the pattern a step chooses is a member of the domain the selected
\* cell had before the step, and the pool it is drawn from holds each id of
\* that domain exactly frequencies[id] times and no other id.
C13_WeightedPick ==
    /\ lastOutcome \in {"contradiction", "nopixels", "collapsed"} =>
          lastPattern \in lastDomain
    /\ SetupDone =>
          \A dom \in ({wave[c] : c \in DOMAIN entropy} \cup {lastDomain}) \ {{}} :
              LET pool == weightedPatterns(dom, frequencies)
              IN /\ \A k \in 1..Len(pool) : pool[k] \in dom
                 /\ \A id \in dom : Occurrences(pool, id) = frequencies[id]
                 /\ selectRandomPattern([c \in {1} |-> dom], 1, frequencies) = dom

\* a step has picked a pattern in a domain of several patterns whose
\* frequencies differ
C13_Witness ==
    /\ lastOutcome = "collapsed"
    /\ lastPattern \in lastDomain
    /\ \E a \in lastDomain : \E b \in lastDomain : frequencies[a] > frequencies[b]

\* C14: once a step has collapsed a cell (domain a singleton, key out of the
\* entropy index), no later draw step, successful or contradicted, changes
\* that cell's domain or puts it back into the entropy index, until the next
\* setup.
C14_CollapseIsPermanent ==
    [][ lastOutcome' # "setup" =>
            \A c \in collapsed :
                /\ c \notin DOMAIN entropy
                /\ c \notin DOMAIN entropy'
                /\ Cardinality(wave[c]) = 1
                /\ wave'[c] = wave[c] ]_vars

\* a step has collapsed a cell next to a cell collapsed by an earlier step,
\* in a library where not every pair of patterns is compatible
C14_Witness ==
    /\ lastOutcome = "collapsed"
    /\ ~AllCompatible
    /\ \E c \in collapsed \ {lastCell} : \E d \in 1..4 :
          neighbor(lastCell, d, outputDimWidth, outputDimHeight) = c

\* C15: once a draw step has ended in a contradiction, no later draw call
\* made before the next setup collapses another cell or returns a Collapsed
\* result.
C15_ContradictionIsTerminal ==
    [][ (contradicted /\ lastOutcome' # "setup") =>
            /\ collapsed' = collapsed
            /\ drawResult'.kind # "object" ]_vars

\* the cell at column x, row y of a grid of width W
CellAt(x, y, W) == x + y * W

\* C16: the Left neighbour of a cell at x = 0 is the cell at x = W - 1 of its
\* row and the Right neighbour of a cell at x = W - 1 is the cell at x = 0 of
\* its row; a cell at y = 0 has no Up neighbour, a cell at y = H - 1 has no
\* Down neighbour, and processing such a cell in that direction changes no
\* domain and no entropy entry.  Checked for the neighbour computation on
\* every grid up to (MaxW + 1) x (MaxH + 1), for the for-of-directions loop
\* on the current state, and for every neighbour update of the last draw.
C16_WrapAsymmetry ==
    /\ \A W \in 1..(MaxW + 1) : \A H \in 1..(MaxH + 1) : \A c \in 0..(W * H - 1) :
          LET x == c % W
              y == c \div W
          IN /\ neighbor(c, Left + 1, W, H) = CellAt(IF x = 0 THEN W - 1 ELSE x - 1, y, W)
             /\ neighbor(c, Right + 1, W, H) = CellAt(IF x = W - 1 THEN 0 ELSE x + 1, y, W)
             /\ neighbor(c, Up + 1, W, H) = IF y = 0 THEN Null ELSE CellAt(x, y - 1, W)
             /\ neighbor(c, Down + 1, W, H) = IF y = H - 1 THEN Null ELSE CellAt(x, y + 1, W)
    /\ SetupDone =>
          \A c \in Cells :
              LET st == [wave |-> wave, entropy |-> entropy, stack |-> <<>>,
                         contradiction |-> FALSE, log |-> <<>>, halt |-> NoHalt]
                  jitter == [k \in DOMAIN entropy |-> 0]
                  from(d) == forDirections(st, c, d, adjacencies,
                                           outputDimWidth, outputDimHeight, jitter)
              IN /\ c \div outputDimWidth = 0 => from(Up + 1) = from(Down + 1)
                 /\ c \div outputDimWidth = outputDimHeight - 1 => from(Down + 1) = st
    /\ \A k \in 1..Len(lastLog) :
          LET u == lastLog[k]
              x == u.from % outputDimWidth
              y == u.from \div outputDimWidth
          IN /\ u.dir = Left => u.cell = CellAt(IF x = 0 THEN outputDimWidth - 1 ELSE x - 1, y, outputDimWidth)
             /\ u.dir = Right => u.cell = CellAt(IF x = outputDimWidth - 1 THEN 0 ELSE x + 1, y, outputDimWidth)
             /\ u.dir = Up => y > 0 /\ u.cell = u.from - outputDimWidth
             /\ u.dir = Down => y < outputDimHeight - 1 /\ u.cell = u.from + outputDimWidth

\* on a grid of 2 rows and 2 columns, the last draw has narrowed a cell at
\* x = W - 1 as the Left neighbour of a cell at x = 0, from a cell that has
\* no Up neighbour
C16_Witness ==
    /\ outputDimWidth = 2 /\ outputDimHeight = 2
    /\ \E k \in 1..Len(lastLog) :
          /\ lastLog[k].dir = Left
          /\ lastLog[k].from % outputDimWidth = 0
          /\ lastLog[k].from \div outputDimWidth = 0
          /\ lastLog[k].cell = outputDimWidth - 1

\* the sum of the domain sizes of a wave
SumOfDomainSizes(w) ==
    Cardinality({cp \in (DOMAIN w) \X (UNION {w[c] : c \in DOMAIN w}) : cp[2] \in w[cp[1]]})

\* the number of times the last draw has pushed cell c onto the stack
PushesOf(log, c) == Cardinality({k \in 1..Len(log) : log[k].cell = c})

\* C17: within one draw step a cell is pushed onto the work stack only right
\* after its domain has been replaced by a strict, non-empty subset, so a
\* cell is pushed at most as many times as its domain has lost patterns, and
\* the pushes of a step are fewer than the sum of the domain sizes: the
\* step ends, by an empty stack or by a contradiction.
C17_PropagationTerminates ==
    [][ lastOutcome' \in {"contradiction", "nopixels", "collapsed"} =>
            /\ \A k \in 1..Len(lastLog') :
                  /\ lastLog'[k].after # {}
                  /\ lastLog'[k].after \subseteq lastLog'[k].before
                  /\ lastLog'[k].after # lastLog'[k].before
                  /\ lastLog'[k].before \subseteq wave[lastLog'[k].cell]
            /\ \A c \in DOMAIN wave :
                  PushesOf(lastLog', c) <= Cardinality(wave[c]) - Cardinality(wave'[c])
            /\ Len(lastLog') < SumOfDomainSizes(wave) ]_vars

\* a draw whose propagation went beyond the neighbours of the collapsed
\* cell: a narrowed neighbour, popped in its turn, has narrowed another cell
C17_Witness ==
    /\ lastOutcome \in {"contradiction", "collapsed"}
    /\ \E k \in 1..Len(lastLog) : lastLog[k].from # lastCell

\* C18: every draw step that returns a Collapsed result removes exactly one
\* cell from the entropy index, a cell no step had collapsed before, and no
\* draw step adds a cell to the index: after setup at most W * H Collapsed
\* results are obtained.
C18_AtMostOneResultPerCell ==
    [][ lastOutcome' # "setup" =>
            /\ DOMAIN entropy' \subseteq DOMAIN entropy
            /\ drawResult'.kind = "object" =>
                  /\ drawResult'.entropyMin \in DOMAIN entropy
                  /\ drawResult'.entropyMin \notin collapsed
                  /\ DOMAIN entropy' = DOMAIN entropy \ {drawResult'.entropyMin}
                  /\ collapsed' = collapsed \cup {drawResult'.entropyMin}
            /\ collapsed' \subseteq Cells
            /\ Cardinality(collapsed') <= outputDimWidth * outputDimHeight ]_vars

\* the third Collapsed result in a row on a grid of 4 cells
C18_Witness ==
    /\ drawResult.kind = "object"
    /\ ~contradicted
    /\ Cardinality(collapsed) = 3
    /\ Cardinality(DOMAIN entropy) = 1

\* C19: a setup call with a pattern dimension larger than the sample's width
\* or height, or with a grid of W * H = 0 cells, reports an error and leaves
\* no initialised wave or entropy on which draw could operate.
C19_InvalidConfigurationFailsFast ==
    ( \/ patternDim > imageWidth
      \/ patternDim > imageHeight
      \/ outputDimWidth * outputDimHeight = 0 ) =>
        /\ DOMAIN wave = {}
        /\ DOMAIN entropy = {}
        /\ drawResult.kind # "object"

\* C20: a pattern scan and a generation are never in progress together, and
\* at most one generation is in progress at a time (a generation is in
\* progress exactly while isGenerating is set, a scan exactly while
\* isScanning is set), so setup never replaces the engine state under a
\* running generation.
C20_CallsAreSerialized ==
    /\ ~(scanPc # "idle" /\ genPc # "idle")
    /\ isScanning <=> scanPc # "idle"
    /\ isGenerating <=> genPc # "idle"

\* the uncollapsed neighbours of cell c hold only patterns that some pattern
\* of c allows in their direction: propagation from c has been done
PropagatedFrom(w, e, adj, c) ==
    \A d \in 1..4 :
        LET n == neighbor(c, d, outputDimWidth, outputDimHeight)
        IN (n # Null /\ n \in DOMAIN e) =>
               w[n] \subseteq possiblePatternsOf(adj, w[c], d - 1)

\* C21: a draw call has no suspension point between selection and the end of
\* propagation.  In every state in which a handler of the component (another
\* draw, a setup, a reset) can run, no cell of the wave is collapsed with its
\* propagation still to run: unless a step has hit a contradiction, every
\* uncollapsed neighbour of a collapsed cell has been narrowed to what that
\* cell allows.
C21_DrawIsAtomic ==
    (SetupDone /\ ~contradicted) =>
        \A c \in DOMAIN wave \ DOMAIN entropy :
            PropagatedFrom(wave, entropy, adjacencies, c)

\* drawLoop waits between two draw calls, a scan may be clicked, and the
\* draw just done has collapsed a cell and narrowed neighbours
C21_Witness ==
    /\ genPc = "loopWait"
    /\ loopResult = "true"
    /\ lastOutcome = "collapsed"
    /\ Len(lastLog) >= 1
    /\ DOMAIN entropy # {}

C23_LibraryInvariant ==
    SetupDone =>
        /\ DOMAIN frequencies = DOMAIN patterns
        /\ Ids = 0..(Cardinality(Ids) - 1)
        /\ \A i \in Ids : frequencies[i] >= 1
        /\ \A i \in Ids : \A j \in Ids : i # j => patterns[i] # patterns[j]

\* a library of 4 patterns, each met several times among the variants of
\* the sample's windows
C23_Witness ==
    /\ SetupDone
    /\ Cardinality(Ids) = 4
    /\ \A i \in Ids : frequencies[i] >= 2

\* The narrowing rule applied to the updates of a log, in order, on wave w:
\* each update must be the one the rule prescribes for the wave as it is
\* then (the neighbour's domain is not within the possible patterns, they
\* intersect, and the domain becomes the intersection).  Gives whether all
\* updates follow the rule, and the wave after them.
RECURSIVE ReplayNarrowing(_, _, _)
ReplayNarrowing(w, log, adj) ==
    IF log = <<>> THEN [ok |-> TRUE, wave |-> w]
    ELSE LET u == Head(log)
             possible == UNION {adj[p][u.dir] : p \in w[u.from]}
         IN IF /\ u.cell = neighbor(u.from, u.dir + 1, outputDimWidth, outputDimHeight)
               /\ u.before = w[u.cell]
               /\ ~(w[u.cell] \subseteq possible)
               /\ possible \cap w[u.cell] # {}
               /\ u.after = possible \cap w[u.cell]
            THEN ReplayNarrowing([w EXCEPT ![u.cell] = u.after], Tail(log), adj)
            ELSE [ok |-> FALSE, wave |-> w]

\* C24: when propagation processes cell c and an uncollapsed neighbour n in
\* direction d, with possible the union of adjacency[p][d] over the patterns
\* p of c's current domain, n's domain becomes exactly possible \cap domain(n)
\* when it is not a subset of possible (and the intersection is not empty),
\* and n is then pushed: only a pushed cell (or the collapsed one) is
\* processed later.  A cell that is not updated that way keeps its domain,
\* and a neighbour that is not in the entropy index is never modified.
C24_NarrowingRule ==
    [][ lastOutcome' \in {"contradiction", "nopixels", "collapsed"} =>
            LET r == ReplayNarrowing([wave EXCEPT ![lastCell'] = {lastPattern'}],
                                     lastLog', adjacencies)
            IN /\ r.ok
               /\ r.wave = wave'
               /\ \A k \in 1..Len(lastLog') :
                     /\ lastLog'[k].cell \in DOMAIN entropy \ {lastCell'}
                     /\ \/ lastLog'[k].from = lastCell'
                        \/ \E m \in 1..(k - 1) : lastLog'[m].cell = lastLog'[k].from
               /\ \A c \in DOMAIN wave \ DOMAIN entropy : wave'[c] = wave[c] ]_vars

\* a draw has narrowed a neighbour of the collapsed cell to several patterns
\* and pushed it, and a cell taken from the stack has narrowed a neighbour
\* of its own
C24_Witness ==
    /\ lastOutcome = "collapsed"
    /\ \E k \in 1..Len(lastLog) :
          /\ lastLog[k].from = lastCell
          /\ lastLog[k].cell \in DOMAIN entropy
          /\ Cardinality(lastLog[k].after) >= 2
          /\ \E m \in (k + 1)..Len(lastLog) : lastLog[m].from = lastLog[k].cell

\* every pattern of the library has at least one compatible pattern in each
\* direction
EveryPatternHasNeighbours ==
    \A p \in Ids : \A d \in Dirs : adjacencies[p][d] # {}

\* C25: after a draw step that returns a Collapsed result the wave is at a
\* propagation fixed point: for every cell c and every direction d in which
\* c has a neighbour n, if n is uncollapsed then domain(n) is within the union
\* of adjacency[p][d] over the patterns p of domain(c), provided every pattern
\* of the library has a compatible pattern in each direction.
C25_FixedPointAfterCollapse ==
    (lastOutcome = "collapsed" /\ EveryPatternHasNeighbours) =>
        \A c \in DOMAIN wave : PropagatedFrom(wave, entropy, adjacencies, c)

\* C26: when propagation meets an empty intersection it halts at once.  The
\* step's writes are exactly the updates made before that point (none comes
\* after it), the neighbour whose intersection is empty keeps the non-empty
\* domain it had, the entropy index loses the selected cell only and no cell
\* outside the updates made before has its domain or entropy changed, and
\* draw does not return a Collapsed result.
C26_ContradictionHalts ==
    [][ lastOutcome' = "contradiction" =>
            LET h == lastHalt'
                r == ReplayNarrowing([wave EXCEPT ![lastCell'] = {lastPattern'}],
                                     lastLog', adjacencies)
            IN /\ drawResult'.kind # "object"
               /\ h.at = Len(lastLog')
               /\ r.ok
               /\ r.wave = wave'
               /\ h.cell = neighbor(h.from, h.dir + 1, outputDimWidth, outputDimHeight)
               /\ h.cell \in DOMAIN entropy'
               /\ wave'[h.cell] # {}
               /\ (UNION {adjacencies[p][h.dir] : p \in wave'[h.from]}) \cap wave'[h.cell] = {}
               /\ DOMAIN entropy' = DOMAIN entropy \ {lastCell'}
               /\ \A c \in DOMAIN entropy' :
                     (\A k \in 1..Len(lastLog') : lastLog'[k].cell # c) =>
                         /\ entropy'[c] = entropy[c]
                         /\ wave'[c] = wave[c] ]_vars

\* a draw has met an empty intersection after narrowing neighbours, and a
\* cell it had narrowed and pushed was still waiting on the stack: the
\* neighbours of that cell have not been narrowed to what it allows
C26_Witness ==
    /\ lastOutcome = "contradiction"
    /\ lastHalt.at >= 1
    /\ wave[lastHalt.cell] # {}
    /\ \E k \in 1..Len(lastLog) :
          /\ lastLog[k].cell # lastHalt.from
          /\ ~PropagatedFrom(wave, entropy, adjacencies, lastLog[k].cell)

\* C27: no rollback on contradiction.  When a draw step ends in a
\* contradiction, the cell it collapsed stays collapsed to the selected
\* pattern and absent from the entropy index, and every neighbour narrowed
\* earlier in the step keeps the domain of its last narrowing and the entropy
\* computed from it; the wave and the entropy index of before the step are
\* not restored.
C27_NoRollback ==
    [][ lastOutcome' = "contradiction" =>
            /\ wave'[lastCell'] = {lastPattern'}
            /\ lastCell' \in DOMAIN entropy
            /\ lastCell' \notin DOMAIN entropy'
            /\ entropy' # entropy
            /\ \A k \in 1..Len(lastLog') :
                  (\A m \in (k + 1)..Len(lastLog') : lastLog'[m].cell # lastLog'[k].cell) =>
                      LET n == lastLog'[k].cell
                      IN /\ wave'[n] = lastLog'[k].after
                         /\ wave'[n] # wave[n]
                         /\ \E j \in JitterVals :
                               entropy'[n] = Cardinality(lastLog'[k].after) * EntropyScale - j
                         /\ entropy'[n] < entropy[n] ]_vars

\* a draw has ended in a contradiction after collapsing a cell that had
\* several patterns and narrowing at least two of the other cells
C27_Witness ==
    /\ lastOutcome = "contradiction"
    /\ Cardinality(lastDomain) >= 2
    /\ wave[lastCell] = {lastPattern}
    /\ \E k \in 1..Len(lastLog) : \E m \in 1..Len(lastLog) :
          /\ lastLog[k].cell # lastLog[m].cell
          /\ wave[lastLog[k].cell] = lastLog[k].after
          /\ wave[lastLog[m].cell] = lastLog[m].after

\* C28: a draw call made when the entropy index is empty returns the Done
\* result (null) and changes nothing: wave, entropy index, patterns,
\* frequencies and adjacency table are left as they were.
C28_DoneChangesNothing ==
    [][ (DOMAIN entropy = {} /\ lastOutcome' # "setup") =>
            /\ lastOutcome' = "done"
            /\ drawResult' = NullResult
            /\ lastCell' = Null
            /\ lastPattern' = Null
            /\ lastLog' = <<>>
            /\ UNCHANGED engine ]_vars

\* draw has been called with an empty entropy index (no setup has run yet)
\* and has returned null
C28_Witness ==
    /\ lastOutcome = "done"
    /\ drawResult = NullResult
    /\ DOMAIN entropy = {}
    /\ ~SetupDone

\* the cell setup pre-seeded, read from an entropy index no draw has written
\* to yet: the one cell of entropy P - 1 among cells of entropy P (Null if
\* there is no such cell)
SeedCell ==
    LET P == Cardinality(Ids)
        seeds == {c \in DOMAIN entropy :
                     /\ entropy[c] = (P - 1) * EntropyScale
                     /\ \A k \in DOMAIN entropy \ {c} : entropy[k] = P * EntropyScale}
    IN IF seeds = {} THEN Null ELSE CHOOSE c \in seeds : TRUE

\* C29: the first cell collapsed after a setup is the pre-seeded cell (the
\* one given entropy P - 1): a draw step that collapses a cell when none has
\* been collapsed since the setup collapses that cell and no other, for every
\* library size and every position of the seed.
C29_SeedCollapsesFirst ==
    [][ (SetupDone /\ collapsed = {} /\ collapsed' # {}) =>
            /\ SeedCell # Null
            /\ collapsed' = {SeedCell}
            /\ lastCell' = SeedCell
            /\ wave'[SeedCell] = {lastPattern'}
            /\ SeedCell \notin DOMAIN entropy' ]_vars

\* on a grid of at least 3 cells the first collapse since the setup has just
\* been made, on a cell that is not the first of the entropy index and that
\* held several patterns
C29_Witness ==
    /\ lastOutcome = "collapsed"
    /\ collapsed = {lastCell}
    /\ lastCell >= 1
    /\ Cardinality(Cells) >= 3
    /\ Cardinality(lastDomain) >= 2

\* pattern p without its rightmost column equals pattern q without its
\* leftmost column: pixel by pixel, each column of p but the last against the
\* next column of q
OverlapsHorizontally(p, q) ==
    \A r \in 1..Len(p) : \A c \in 1..(Len(p[r]) - 1) : p[r][c] = q[r][c + 1]

\* pattern p without its bottom row equals pattern q without its top row
OverlapsVertically(p, q) ==
    \A r \in 1..(Len(p) - 1) : \A c \in 1..Len(p[r]) : p[r][c] = q[r + 1][c]

\* C30: for all pattern ids i and j (i = j included), j is in
\* adjacency[i][Left] exactly when pattern i without its rightmost column
\* equals pattern j without its leftmost column, and j is in adjacency[i][Up]
\* exactly when pattern i without its bottom row equals pattern j without its
\* top row; for N = 1 every pair is compatible.
C30_AdjacencyDefinition ==
    SetupDone =>
        /\ \A i \in Ids : \A j \in Ids :
              /\ Len(patterns[i]) = patternDim
              /\ \A r \in 1..patternDim : Len(patterns[i][r]) = patternDim
              /\ j \in adjacencies[i][Left] <=> OverlapsHorizontally(patterns[i], patterns[j])
              /\ j \in adjacencies[i][Up] <=> OverlapsVertically(patterns[i], patterns[j])
        /\ patternDim = 1 =>
              \A i \in Ids : adjacencies[i][Left] = Ids /\ adjacencies[i][Up] = Ids

\* a library of 2 x 2 patterns in which both tests succeed on some pair and
\* fail on the same pair taken the other way round, and fail on some pattern
\* against itself
C30_Witness ==
    /\ SetupDone
    /\ patternDim = 2
    /\ \E i \in Ids : \E j \in Ids :
          j \in adjacencies[i][Left] /\ i \notin adjacencies[j][Left]
    /\ \E i \in Ids : \E j \in Ids :
          j \in adjacencies[i][Up] /\ i \notin adjacencies[j][Up]
    /\ \E i \in Ids : i \notin adjacencies[i][Left] /\ i \notin adjacencies[i][Up]

\* the pixel of the sample at column px, row py, as its 4 bytes
PixelAt(data, imgW, px, py) ==
    SubSeq(data, (py * imgW + px) * 4 + 1, (py * imgW + px) * 4 + 4)

\* C31: toroidal window extraction.  For every sample position (x, y) and
\* every N from 1 to the smaller of the sample's width and height, the window
\* is N rows of N pixels and its entry at row n, column i is the sample pixel
\* at ((x + i) mod width, (y + n) mod height).
C31_ToroidalWindow ==
    \A N \in 1..(IF imageWidth < imageHeight THEN imageWidth ELSE imageHeight) :
    \A x \in 0..(imageWidth - 1) : \A y \in 0..(imageHeight - 1) :
        LET c == cmat(imageData, imageWidth, imageHeight, N, x, y)
        IN /\ Len(c) = N
           /\ \A n \in 0..(N - 1) :
                 /\ Len(c[n + 1]) = N
                 /\ \A i \in 0..(N - 1) :
                       c[n + 1][i + 1] =
                           PixelAt(imageData, imageWidth,
                                   (x + i) % imageWidth, (y + n) % imageHeight)

\* setup has run on a 2 x 2 sample with N = 2, and the window taken at the
\* last position, which wraps round both edges, is a pattern of the library
\* that differs from the window taken at the first position
C31_Witness ==
    /\ SetupDone
    /\ imageWidth = 2
    /\ imageHeight = 2
    /\ patternDim = 2
    /\ cmat(imageData, 2, 2, 2, 1, 1) # cmat(imageData, 2, 2, 2, 0, 0)
    /\ \E id \in Ids : patterns[id] = cmat(imageData, 2, 2, 2, 1, 1)

\* matrix p turned r quarter turns
RECURSIVE Turned(_, _)
Turned(p, r) == IF r = 0 THEN p ELSE rotate90(Turned(p, r - 1))

\* the variants one window contributes, as (position, rotation, form): form
\* 0 is the rotation itself, 1 its row reversal, 2 its per-row column reversal
VariantKeys ==
    (0..(imageWidth - 1)) \X (0..(imageHeight - 1)) \X (0..3) \X (0..2)

VariantOf(key) ==
    LET t == Turned(cmat(imageData, imageWidth, imageHeight, patternDim, key[1], key[2]),
                    key[3])
    IN IF key[4] = 0 THEN t
       ELSE IF key[4] = 1 THEN [k \in 1..Len(t) |-> t[Len(t) + 1 - k]]
       ELSE [k \in 1..Len(t) |-> [m \in 1..Len(t[k]) |-> t[k][Len(t[k]) + 1 - m]]]

RECURSIVE SumOver(_, _)
SumOver(f, S) ==
    IF S = {} THEN 0
    ELSE LET a == CHOOSE b \in S : TRUE IN f[a] + SumOver(f, S \ {a})

\* C32: each sampled window contributes exactly 12 variants (for each of the
\* 4 quarter-turn rotations: the rotation, its row reversal, its per-row
\* column reversal), a pattern's frequency is the number of generated
\* variants content-equal to it, and the frequencies of a library sum to
\* 12 * sample width * sample height.
C32_FrequenciesCountVariants ==
    SetupDone =>
        /\ \A x \in 0..(imageWidth - 1) : \A y \in 0..(imageHeight - 1) :
              Len(Variants(cmat(imageData, imageWidth, imageHeight, patternDim, x, y))) = 12
        /\ \A id \in Ids :
              frequencies[id] = Cardinality({key \in VariantKeys : VariantOf(key) = patterns[id]})
        /\ \A key \in VariantKeys : \E id \in Ids : patterns[id] = VariantOf(key)
        /\ SumOver(frequencies, Ids) = 12 * imageWidth * imageHeight

\* setup has run on a sample of 4 pixels and has built a library of several
\* patterns that were not all generated the same number of times
C32_Witness ==
    /\ SetupDone
    /\ imageWidth * imageHeight = 4
    /\ SumOver(frequencies, Ids) = 48
    /\ \E i \in Ids : \E j \in Ids : frequencies[i] # frequencies[j]

\* C33: entropy tracks domain size.  After setup and after every draw step,
\* every cell of the entropy index other than the still-untouched pre-seeded
\* cell has an entropy e with |domain| - 0.1 < e <= |domain| (in hundredths
\* here); a cell that still holds every pattern has entropy exactly P.  The
\* pre-seeded cell is untouched only as long as the wave and the entropy
\* index are as setup made them: every cell in the index, with every pattern.
C33_EntropyTracksDomain ==
    SetupDone =>
        \A c \in DOMAIN entropy :
            \/ /\ c = SeedCell
               /\ \A k \in Cells : k \in DOMAIN entropy /\ wave[k] = Ids
            \/ /\ Cardinality(wave[c]) * EntropyScale - 10 < entropy[c]
               /\ entropy[c] <= Cardinality(wave[c]) * EntropyScale
               /\ wave[c] = Ids => entropy[c] = Cardinality(Ids) * EntropyScale

\* a draw has collapsed a cell and narrowed another to several patterns,
\* with a non-zero jitter taken off its entropy
C33_Witness ==
    /\ lastOutcome = "collapsed"
    /\ \E c \in DOMAIN entropy :
          /\ Cardinality(wave[c]) >= 2
          /\ wave[c] # Ids
          /\ entropy[c] < Cardinality(wave[c]) * EntropyScale
          /\ \E k \in 1..Len(lastLog) : lastLog[k].cell = c

\* C34: domains only shrink.  Between two setup calls, for every cell, the
\* domain after a draw step is a subset of its domain before the step (the
\* set of cells does not change), and every write to a domain during
\* propagation replaces it with a strict, non-empty subset of the domain the
\* cell had just before that write.
C34_DomainsOnlyShrink ==
    [][ (SetupDone /\ lastOutcome' # "setup") =>
            /\ DOMAIN wave' = DOMAIN wave
            /\ \A c \in DOMAIN wave : wave'[c] \subseteq wave[c] /\ wave'[c] # {}
            /\ \A k \in 1..Len(lastLog') :
                  LET u == lastLog'[k]
                      earlier == {m \in 1..(k - 1) : lastLog'[m].cell = u.cell}
                      last == IF earlier = {} THEN 0
                              ELSE CHOOSE m \in earlier : \A m2 \in earlier : m2 <= m
                  IN /\ u.after \subseteq u.before
                     /\ u.after # u.before
                     /\ u.after # {}
                     /\ u.before = IF last = 0
                                   THEN (IF u.cell = lastCell' THEN {lastPattern'} ELSE wave[u.cell])
                                   ELSE lastLog'[last].after ]_vars

\* a draw has collapsed a cell that held several patterns to one of them
\* and has narrowed one same neighbour twice, each time to fewer patterns
C34_Witness ==
    /\ lastOutcome \in {"collapsed", "contradiction"}
    /\ Cardinality(lastDomain) >= 2
    /\ wave[lastCell] = {lastPattern}
    /\ \E k \in 1..Len(lastLog) : \E m \in (k + 1)..Len(lastLog) :
          /\ lastLog[m].cell = lastLog[k].cell
          /\ lastLog[m].before = lastLog[k].after
          /\ Cardinality(lastLog[m].after) < Cardinality(lastLog[k].after)

\* square matrix p turned a quarter turn: the first row of the result is the
\* first column of p read from the bottom up
QuarterTurn(p) ==
    [r \in 1..Len(p) |-> [c \in 1..Len(p) |-> p[Len(p) + 1 - c][r]]]

\* C35: the set of patterns built by setup is closed under the sampled
\* symmetries: for every pattern of the library, its 90-degree rotation, its
\* row reversal and its per-row column reversal are patterns of the library.
C35_ClosedUnderSymmetries ==
    SetupDone =>
        \A i \in Ids :
            LET p == patterns[i]
                n == Len(p)
            IN /\ \E j \in Ids : patterns[j] = QuarterTurn(p)
               /\ \E j \in Ids : patterns[j] = [r \in 1..n |-> p[n + 1 - r]]
               /\ \E j \in Ids : patterns[j] = [r \in 1..n |-> [c \in 1..n |-> p[r][n + 1 - c]]]

\* a library in which a pattern differs from its rotation, from its row
\* reversal and from its column reversal, the two reversals differ, and the
\* rotation differs from the row reversal
C35_Witness ==
    /\ SetupDone
    /\ \E i \in Ids :
          LET p == patterns[i]
              n == Len(p)
              rot == QuarterTurn(p)
              rows == [r \in 1..n |-> p[n + 1 - r]]
              cols == [r \in 1..n |-> [c \in 1..n |-> p[r][n + 1 - c]]]
          IN /\ rot # p /\ rows # p /\ cols # p
             /\ rows # cols /\ rot # rows

\* C36: Reset Canvas leaves the engine state unchanged.  A step that takes
\* the step counter back to 0 without starting a generation (the reset; it is
\* only enabled while no generation runs) leaves the wave, the entropy index
\* and the library as they were, and the setup flag too, so that a generation
\* started after it works on the cells already collapsed and not on a fresh
\* full superposition.
C36_ResetKeepsEngine ==
    [][ (stepCount # 0 /\ stepCount' = 0 /\ genPc' = genPc) =>
            /\ ~isGenerating
            /\ wave' = wave
            /\ entropy' = entropy
            /\ patterns' = patterns
            /\ frequencies' = frequencies
            /\ adjacencies' = adjacencies
            /\ isSetupComplete' = isSetupComplete
            /\ DOMAIN wave' \ DOMAIN entropy' = DOMAIN wave \ DOMAIN entropy ]_vars

\* Reset Canvas has been clicked after a draw that collapsed a cell: the
\* counter is back to 0, no generation runs, the last draw is still the one
\* that returned a pattern, and the wave still has its collapsed cell, with
\* Generate enabled
C36_Witness ==
    /\ stepCount = 0
    /\ genPc = "idle"
    /\ ~isGenerating
    /\ isSetupComplete
    /\ lastOutcome = "collapsed"
    /\ CollapsedCells # {}
    /\ \E c \in DOMAIN entropy : wave[c] # Ids

\* a step of the component in which drawOnCanvas calls draw: an iteration of
\* drawLoop or the run of handleStepGeneration
IsDrawStep ==
    \/ genPc \in {"loopStart", "loopWait"} /\ genPc' = "loopWait"
    \/ genPc = "stepStart" /\ genPc' = "idle"

\* C37: the live step counter counts successful collapses.  A draw call that
\* returns a Collapsed result adds 1 to the counter and any other draw call
\* (Done, null, contradiction) leaves it as it is; apart from draw calls the
\* counter only changes by going back to 0, at the start of a full generation
\* or at Reset Canvas, both taken while no generation runs.  So the counter
\* is the number of Collapsed results since it was last reset.
C37_CounterCountsCollapses ==
    [][ IF IsDrawStep
        THEN /\ lastOutcome' = "collapsed" => stepCount' = stepCount + 1
             /\ lastOutcome' # "collapsed" => stepCount' = stepCount
             /\ lastOutcome' = "collapsed" <=> drawResult'.kind = "object"
        ELSE \/ stepCount' = stepCount
             \/ /\ stepCount' = 0
                /\ ~isGenerating
                /\ genPc = "idle"
                /\ genPc' \in {"idle", "loopStart"} ]_vars

\* within a full generation a draw has returned a pattern and been counted,
\* and the draw after it has returned nothing and has not been counted
C37_Witness ==
    /\ genPc = "loopWait"
    /\ stepCount >= 1
    /\ lastOutcome \in {"contradiction", "nopattern"}
    /\ drawResult.kind # "object"

=============================================================================